---- MODULE Spec2Model ----
(***************************************************************************)
(* Model of src/main.py: an HTTP API over three MongoDB collections        *)
(* (users, orgs, permissions).  The handlers are modelled as operators on  *)
(* the collections; two specifications run them:                           *)
(*   Spec      one request at a time, each handler one atomic step;        *)
(*   SpecConc  several requests in flight, one step per store call.        *)
(***************************************************************************)
EXTENDS Bags, FiniteSets, Integers, Sequences, TLC

\* ------------------------------------------------------------------ bounds
\* Longest request body (list of Permission objects) a client sends.
MaxBatch == 2
\* Largest number of org documents held by the orgs collection.
MaxOrgDocs == 3

\* ------------------------------------------------------------ input domains
\* The _id values the store may assign to user documents.
ObjectIds == {1, 2}
\* user_id strings sent by clients: the texts of the two ids, and a text
\* that is no well-formed id.
WellFormedIds == {"a1", "b2"}
MalformedIds == {"zz"}
\* Organisation names sent by clients.
OrgNames == {"Acme", "Beta"}
\* Role strings sent by clients: two of the accepted roles and one that is not.
InputRoles == {"READ", "ADMIN", "OWNER"}
\* Clients with a request in flight under SpecConc.
Clients == {"c1", "c2"}

\* class Permission(BaseModel): user_id, org_name, role, all free strings.
\* Every combination with a well-formed id; the malformed id with one org,
\* once with an accepted role and once with a refused one.
Permission ==
    [user_id : WellFormedIds, org_name : OrgNames, role : InputRoles]
    \cup [user_id : MalformedIds, org_name : {"Acme"}, role : {"READ", "OWNER"}]

\* The role literals of the handler's membership test.
ValidRoles == {"READ", "WRITE", "ADMIN"}

\* Sequences over S of length lo..hi.
SeqsOf(S, lo, hi) == UNION {[1..n -> S] : n \in lo..hi}

\* Request bodies: List[Permission], the empty list included.
Batches == SeqsOf(Permission, 0, MaxBatch)

\* Request bodies of the requests that overlap under SpecConc: one user,
\* accepted roles only, so that the interleavings are about one or two keys.
ConcPermission == {p \in Permission : p.user_id = "a1" /\ p.role \in ValidRoles}
ConcBatches == SeqsOf(ConcPermission, 0, MaxBatch)

\* --------------------------------------------------------------- ObjectId
\* bson.objectid.ObjectId(s): parses the hexadecimal text of an id; a text
\* that is not well formed raises bson.errors.InvalidId.  The model's ids are
\* the numbers of ObjectIds; 0 stands for the raised InvalidId.
ObjectId(s) ==
    CASE s = "a1" -> 1
      [] s = "b2" -> 2
      [] OTHER -> 0

\* ------------------------------------------------------------------ state
VARIABLES
    users,        \* db.users: the set of _id values of the user documents
    orgs,         \* db.orgs: bag of organisation names (one copy per document)
    permissions,  \* db.permissions: bag of Permission documents
    req,          \* Spec: the request being served, or NoReq
    resp,         \* Spec: the response of the handler, or NoResp
    calls         \* SpecConc: Clients -> the position of the client's request

vars == <<users, orgs, permissions, req, resp, calls>>

NoReq == [op |-> "none", name |-> "", body |-> <<>>]
NoResp == [status |-> "none", count |-> 0, message |-> ""]
Idle == [pc |-> "idle", name |-> "", operations |-> <<>>]

\* A handler's return value (status "ok") or the exception it raises
\* (status = the HTTPException detail, or the name of the driver's exception).
Ok(count, message) == [status |-> "ok", count |-> count, message |-> message]
Raise(detail) == [status |-> detail, count |-> 0, message |-> ""]

Init ==
    /\ users = {}
    /\ orgs = EmptyBag
    /\ permissions = EmptyBag
    /\ req = NoReq
    /\ resp = NoResp
    /\ calls = [c \in Clients |-> Idle]

\* ---------------------------------------------------------- store helpers
\* insert_one into a bag-valued collection.
insert_one(coll, doc) == coll (+) SetToBag({doc})

\* find_one({"name": name}) on db.orgs: is there such a document.
find_org(os, name) == BagIn(name, os)

\* find_one({"_id": ObjectId(user_id)}) on db.users.
find_user(us, oid) == oid \in us

\* ----------------------------------------------------------------- users
\* str(result.inserted_id): the text of a store-assigned id.
ObjectIdStr(oid) ==
    CASE oid = 1 -> "a1"
      [] oid = 2 -> "b2"
      [] OTHER -> "c3"

\* create_user: insert_one, return the new id; oid is the _id the store
\* assigns, any id not yet in use.  (name and email are stored but never
\* read by the handlers modelled here.)
create_user(us, oid) ==
    [users |-> us \cup {oid}, resp |-> Ok(0, ObjectIdStr(oid))]

\* ------------------------------------------------------------------ orgs
\* create_org: existence lookup, then a separate insert.
create_org(os, name) ==
    IF find_org(os, name)
    THEN [orgs |-> os, resp |-> Raise("Org already exists")]
    ELSE [orgs |-> insert_one(os, name), resp |-> Ok(0, "")]

\* ----------------------------------------------------------- permissions
\* UpdateOne(filter_query, update_query, upsert=True) of one Permission.
UpdateOne(p) ==
    [filter |-> [user_id |-> p.user_id, org_name |-> p.org_name],
     set |-> [role |-> p.role]]

\* A document matches the filter {"user_id": .., "org_name": ..}.
MatchesFilter(d, f) == d.user_id = f.user_id /\ d.org_name = f.org_name

\* Faulty variant of update_one: the upsert as a plain insert, no lookup of the key.
update_one_always_insert(perms, op) ==
    {[permissions |->
        insert_one(perms, [user_id |-> op.filter.user_id,
                           org_name |-> op.filter.org_name,
                           role |-> op.set.role]),
      upserted |-> 1]}

\* Faulty variant of update_one: the role is set on insert only ($setOnInsert), a
\* matching document is left as it is.
update_one_set_on_insert(perms, op) ==
    IF \E d \in BagToSet(perms) : MatchesFilter(d, op.filter)
    THEN {[permissions |-> perms, upserted |-> 0]}
    ELSE {[permissions |->
             insert_one(perms, [user_id |-> op.filter.user_id,
                                org_name |-> op.filter.org_name,
                                role |-> op.set.role]),
           upserted |-> 1]}

\* One UpdateOne with upsert=True, as the store executes it: a matching
\* document (any one of them, should there be several) gets the role; when
\* none matches a document made of the filter and the role is inserted.
\* The set of outcomes [permissions, upserted].
update_one(perms, op) ==
    LET matching == {d \in BagToSet(perms) : MatchesFilter(d, op.filter)}
    IN  IF matching = {}
        THEN {[permissions |->
                 insert_one(perms, [user_id |-> op.filter.user_id,
                                    org_name |-> op.filter.org_name,
                                    role |-> op.set.role]),
               upserted |-> 1]}
        ELSE {[permissions |->
                 insert_one(perms (-) SetToBag({d}),
                            [d EXCEPT !.role = op.set.role]),
               upserted |-> 0] : d \in matching}

\* Faulty variant of execute: the operations are executed last to first.
RECURSIVE execute_reversed(_, _, _)
execute_reversed(perms, operations, n) ==
    IF operations = <<>>
    THEN {[permissions |-> perms, upserted_count |-> n]}
    ELSE LET last == operations[Len(operations)]
             rest == SubSeq(operations, 1, Len(operations) - 1)
         IN  UNION {execute_reversed(o.permissions, rest, n + o.upserted) :
                        o \in update_one(perms, last)}

\* The operations of a bulk write executed in order; n counts the upserts.
\* The set of outcomes [permissions, upserted_count].
RECURSIVE execute(_, _, _)
execute(perms, operations, n) ==
    IF operations = <<>>
    THEN {[permissions |-> perms, upserted_count |-> n]}
    ELSE UNION {execute(o.permissions, Tail(operations), n + o.upserted) :
                    o \in update_one(perms, Head(operations))}

\* Faulty variant of bulk_write: the count is that of the documents inserted or
\* modified, one per operation.
bulk_write_counts_modified(perms, operations) ==
    IF operations = <<>>
    THEN {[permissions |-> perms, upserted_count |-> 0,
           error |-> "InvalidOperation"]}
    ELSE {[permissions |-> o.permissions, upserted_count |-> Len(operations),
           error |-> ""] : o \in execute(perms, operations, 0)}

\* db.permissions.bulk_write(operations): the driver refuses an empty list
\* (InvalidOperation: No operations to execute) before contacting the store.
bulk_write(perms, operations) ==
    IF operations = <<>>
    THEN {[permissions |-> perms, upserted_count |-> 0,
           error |-> "InvalidOperation"]}
    ELSE {[permissions |-> o.permissions, upserted_count |-> o.upserted_count,
           error |-> ""] : o \in execute(perms, operations, 0)}

\* Faulty variant of validate_one: the role is checked before the user and the org.
validate_one_role_first(us, os, p) ==
    IF ~(p.role \in ValidRoles) THEN "Invalid role"
    ELSE IF ObjectId(p.user_id) = 0 THEN "InvalidId"
    ELSE IF ~find_user(us, ObjectId(p.user_id)) THEN "User not found"
    ELSE IF ~find_org(os, p.org_name) THEN "Org not found"
    ELSE ""

\* The validation of one Permission, in the order of the loop body:
\* ObjectId() conversion and user lookup, org lookup, role membership.
\* "" when the element passes.
validate_one(us, os, p) ==
    IF ObjectId(p.user_id) = 0 THEN "InvalidId"
    ELSE IF ~find_user(us, ObjectId(p.user_id)) THEN "User not found"
    ELSE IF ~find_org(os, p.org_name) THEN "Org not found"
    ELSE IF ~(p.role \in ValidRoles) THEN "Invalid role"
    ELSE ""

\* The for loop of update_permissions from element i on: the first failing
\* check raises; otherwise the element's UpdateOne is appended.
RECURSIVE validate(_, _, _, _, _)
validate(us, os, body, i, operations) ==
    IF i > Len(body)
    THEN [error |-> "", operations |-> operations]
    ELSE LET e == validate_one(us, os, body[i])
         IN  IF e # ""
             THEN [error |-> e, operations |-> operations]
             ELSE validate(us, os, body, i + 1,
                           Append(operations, UpdateOne(body[i])))

\* Faulty variant of update_permissions: each element is written as soon as it has
\* passed, so the elements before a failing one are persisted.
update_permissions_partial(us, os, perms, body) ==
    LET v == validate(us, os, body, 1, <<>>)
    IN  IF v.error # ""
        THEN {[permissions |-> o.permissions, resp |-> Raise(v.error)] :
                  o \in execute(perms, v.operations, 0)}
        ELSE {[permissions |-> w.permissions,
               resp |-> IF w.error # "" THEN Raise(w.error)
                        ELSE Ok(w.upserted_count, "")] :
                  w \in bulk_write(perms, v.operations)}

\* update_permissions: validate every element, then one bulk write; the
\* response carries result.upserted_count.  The set of outcomes
\* [permissions, resp].
update_permissions(us, os, perms, body) ==
    LET v == validate(us, os, body, 1, <<>>)
    IN  IF v.error # ""
        THEN {[permissions |-> perms, resp |-> Raise(v.error)]}
        ELSE {[permissions |-> w.permissions,
               resp |-> IF w.error # "" THEN Raise(w.error)
                        ELSE Ok(w.upserted_count, "")] :
                  w \in bulk_write(perms, v.operations)}

\* Faulty variant of MatchesDict: the filter holds the key only, the role is ignored.
MatchesDict_key_only(d, f) == d.user_id = f.user_id /\ d.org_name = f.org_name

\* A document matches one element of the "$or" list: permission.__dict__ is
\* the filter {"user_id": .., "org_name": .., "role": ..}.
MatchesDict(d, f) ==
    d.user_id = f.user_id /\ d.org_name = f.org_name /\ d.role = f.role

\* db.permissions.delete_many({"$or": permissions_list}): the store rejects
\* an empty "$or" array (OperationFailure); otherwise every document that
\* matches some element of the list is deleted.
delete_many(perms, permissions_list) ==
    IF permissions_list = <<>>
    THEN [permissions |-> perms, deleted_count |-> 0,
          error |-> "OperationFailure"]
    ELSE LET kept == {d \in BagToSet(perms) :
                         ~(\E i \in 1..Len(permissions_list) :
                              MatchesDict(d, permissions_list[i]))}
             left == [d \in kept |-> perms[d]]
         IN  [permissions |-> left,
              deleted_count |-> BagCardinality(perms) - BagCardinality(left),
              error |-> ""]

\* The message of delete_permissions for a deleted_count.
message_of(deleted_count) ==
    IF deleted_count = 0
    THEN "No user with given permission exists"
    ELSE ToString(deleted_count) \o " permissions successfully removed"

\* delete_permissions: no validation, one delete_many, count and message.
delete_permissions(perms, body) ==
    LET r == delete_many(perms, body)
    IN  [permissions |-> r.permissions,
         resp |-> IF r.error # "" THEN Raise(r.error)
                  ELSE Ok(r.deleted_count, message_of(r.deleted_count))]

\* ------------------------------------------- Spec: one request at a time
\* Each handler action takes a request (req' with its input), runs the whole
\* handler on the collections and leaves the response in resp'.
Request(op, name, body) == [op |-> op, name |-> name, body |-> body]

\* POST /users
CreateUser ==
    /\ req = NoReq
    /\ \E oid \in ObjectIds \ users :
          LET r == create_user(users, oid)
          IN  users' = r.users /\ resp' = r.resp
    /\ req' = Request("create_user", "", <<>>)
    /\ UNCHANGED <<orgs, permissions, calls>>

\* POST /orgs
CreateOrg ==
    /\ req = NoReq
    /\ BagCardinality(orgs) < MaxOrgDocs
    /\ \E name \in OrgNames :
          LET r == create_org(orgs, name)
          IN  /\ orgs' = r.orgs /\ resp' = r.resp
              /\ req' = Request("create_org", name, <<>>)
    /\ UNCHANGED <<users, permissions, calls>>

\* POST /permissions
UpdatePermissions ==
    /\ req = NoReq
    /\ \E body \in Batches :
          /\ req' = Request("assign", "", body)
          /\ \E r \in update_permissions(users, orgs, permissions, body) :
                permissions' = r.permissions /\ resp' = r.resp
    /\ UNCHANGED <<users, orgs, calls>>

\* DELETE /permissions
DeletePermissions ==
    /\ req = NoReq
    /\ \E body \in Batches :
          LET r == delete_permissions(permissions, body)
          IN  /\ permissions' = r.permissions /\ resp' = r.resp
              /\ req' = Request("revoke", "", body)
    /\ UNCHANGED <<users, orgs, calls>>

\* The response is sent; the next request may be served.
Return ==
    /\ req # NoReq
    /\ req' = NoReq /\ resp' = NoResp
    /\ UNCHANGED <<users, orgs, permissions, calls>>

Next ==
    \/ CreateUser
    \/ CreateOrg
    \/ UpdatePermissions
    \/ DeletePermissions
    \/ Return

Spec == Init /\ [][Next]_vars

\* --------------------------------- SpecConc: requests in flight together
\* Each client serves one request at a time; the requests of different
\* clients interleave between store calls.  A store call is one step: a
\* find_one, an insert_one, a delete_many, one item of a bulk write.  The
\* lookups of update_permissions read collections that only grow, so the
\* validation loop is taken in one step, at its last lookup.  A request that
\* raises before its first write changes nothing and is left out.
InFlight(pc) == {c \in Clients : calls[c].pc = pc}

\* POST /users: a single insert_one.
ConcCreateUser ==
    /\ \E oid \in ObjectIds \ users : users' = create_user(users, oid).users
    /\ UNCHANGED <<orgs, permissions, req, resp, calls>>

\* POST /orgs, first store call: find_one finds no org of that name.
ConcOrgLookup(c) ==
    /\ calls[c].pc = "idle"
    /\ BagCardinality(orgs) + Cardinality(InFlight("insert_org")) < MaxOrgDocs
    /\ \E name \in OrgNames :
          /\ ~find_org(orgs, name)
          /\ calls' = [calls EXCEPT ![c] = [Idle EXCEPT !.pc = "insert_org",
                                                        !.name = name]]
    /\ UNCHANGED <<users, orgs, permissions, req, resp>>

\* POST /orgs, second store call: insert_one.
ConcOrgInsert(c) ==
    /\ calls[c].pc = "insert_org"
    /\ orgs' = insert_one(orgs, calls[c].name)
    /\ calls' = [calls EXCEPT ![c] = Idle]
    /\ UNCHANGED <<users, permissions, req, resp>>

\* POST /permissions: the validation loop passes and the bulk write starts.
ConcValidate(c) ==
    /\ calls[c].pc = "idle"
    /\ \E body \in ConcBatches :
          LET v == validate(users, orgs, body, 1, <<>>)
          IN  /\ v.error = "" /\ v.operations # <<>>
              /\ calls' = [calls EXCEPT ![c] =
                              [Idle EXCEPT !.pc = "bulk",
                                           !.operations = v.operations]]
    /\ UNCHANGED <<users, orgs, permissions, req, resp>>

\* POST /permissions: the store executes the next item of the bulk write.
ConcBulkItem(c) ==
    /\ calls[c].pc = "bulk"
    /\ \E o \in update_one(permissions, Head(calls[c].operations)) :
          permissions' = o.permissions
    /\ calls' = [calls EXCEPT ![c] =
                    IF Len(calls[c].operations) = 1
                    THEN Idle
                    ELSE [@ EXCEPT !.operations = Tail(@)]]
    /\ UNCHANGED <<users, orgs, req, resp>>

\* DELETE /permissions: a single delete_many.
ConcRevoke(c) ==
    /\ calls[c].pc = "idle"
    /\ \E body \in ConcBatches :
          permissions' = delete_permissions(permissions, body).permissions
    /\ UNCHANGED <<users, orgs, req, resp, calls>>

NextConc ==
    \/ ConcCreateUser
    \/ \E c \in Clients : ConcOrgLookup(c)
    \/ \E c \in Clients : ConcOrgInsert(c)
    \/ \E c \in Clients : ConcValidate(c)
    \/ \E c \in Clients : ConcBulkItem(c)
    \/ \E c \in Clients : ConcRevoke(c)

SpecConc == Init /\ [][NextConc]_vars

\* ================================================================ claims
\* What the claims speak of, stated from the collections alone.
KeyOf(p) == [user_id |-> p.user_id, org_name |-> p.org_name]
KeysOf(body) == {KeyOf(body[i]) : i \in DOMAIN body}
DocsWithKey(perms, k) == {d \in BagToSet(perms) : KeyOf(d) = k}
UserKnown(p) == \E oid \in users : ObjectIdStr(oid) = p.user_id
OrgKnown(p) == \E n \in BagToSet(orgs) : n = p.org_name
RoleAccepted(p) == p.role \in {"READ", "WRITE", "ADMIN"}
FailsValidation(p) == ~UserKnown(p) \/ ~OrgKnown(p) \/ ~RoleAccepted(p)

\* The handler step of an operation: it takes the request and answers it.
Handles(op) == req = NoReq /\ req'.op = op

\* C1: an assign whose batch holds an element that fails validation
\* (unknown user, unknown org, role outside READ/WRITE/ADMIN), at any
\* position, ends in an error and leaves the collections as they were.
C1_AssignAllOrNothing ==
    [][(Handles("assign")
          /\ \E i \in DOMAIN req'.body : FailsValidation(req'.body[i]))
       => /\ resp'.status \notin {"ok", "none"}
          /\ permissions' = permissions
          /\ users' = users /\ orgs' = orgs]_vars

\* C1 witness: a two-element assign whose first element is valid and whose
\* second names an unknown user has been refused, over a non-empty store.
C1_Witness ==
    /\ req.op = "assign" /\ Len(req.body) = 2
    /\ ~FailsValidation(req.body[1])
    /\ ~UserKnown(req.body[2])
    /\ resp.status = "User not found"
    /\ permissions # EmptyBag

\* C2: under every interleaving of assign and revoke requests the
\* permissions collection holds at most one document per (user_id, org_name).
C2_AtMostOnePerKey ==
    \A d1 \in BagToSet(permissions) :
        /\ CopiesIn(d1, permissions) = 1
        /\ \A d2 \in BagToSet(permissions) : KeyOf(d1) = KeyOf(d2) => d1 = d2

\* C2 witness: two bulk writes in flight are both about to upsert the same
\* key, whose document is already stored.
C2_Witness ==
    \E c1, c2 \in Clients :
        /\ c1 # c2
        /\ calls[c1].pc = "bulk" /\ calls[c2].pc = "bulk"
        /\ Head(calls[c1].operations).filter = Head(calls[c2].operations).filter
        /\ DocsWithKey(permissions, Head(calls[c1].operations).filter) # {}

\* C3: an assign with an empty batch returns count 0 and raises no error.
C3_EmptyAssignReturnsZero ==
    (req.op = "assign" /\ req.body = <<>>)
        => (resp.status = "ok" /\ resp.count = 0)

\* C4: a revoke with an empty list does not error: deleted_count 0 and the
\* message "No user with given permission exists".
C4_EmptyRevokeZeroBranch ==
    (req.op = "revoke" /\ req.body = <<>>)
        => resp = Ok(0, "No user with given permission exists")

C6_RevokeExactMatch ==
    [][Handles("revoke")
       => LET body == req'.body
              hit(d) == \E i \in DOMAIN body :
                            /\ body[i].user_id = d.user_id
                            /\ body[i].org_name = d.org_name
                            /\ body[i].role = d.role
          IN  /\ \A d \in BagToSet(permissions) :
                    CopiesIn(d, permissions') =
                        IF hit(d) THEN 0 ELSE CopiesIn(d, permissions)
              /\ BagToSet(permissions') \subseteq BagToSet(permissions)
              /\ body # <<>> => resp'.status = "ok"
              /\ resp'.status = "ok" =>
                    resp'.count = BagCardinality(permissions)
                                    - BagCardinality(permissions')]_vars

\* C6 witness: a revoke removed a document while an element that agrees with
\* a stored document on user_id and org_name but not on role left it stored.
C6_Witness ==
    /\ req.op = "revoke" /\ resp.status = "ok" /\ resp.count >= 1
    /\ \E i \in DOMAIN req.body : \E d \in BagToSet(permissions) :
          KeyOf(req.body[i]) = KeyOf(d) /\ req.body[i].role # d.role

\* C7: no two org documents share a name, also when create_org requests for
\* one name interleave.
C7_OrgNamesUnique == \A n \in BagToSet(orgs) : CopiesIn(n, orgs) = 1

\* C8: from every store state (taken between two requests), for every triple whose user and org exist and
\* whose role is accepted, assign([t]) succeeds and the revoke([t]) that
\* follows returns deleted_count 1, removes the document of t's key and keeps
\* every other document of the store the assign left.
C8_AssignRevokeRoundTrip ==
    \A t \in Permission :
        (req = NoReq /\ ~FailsValidation(t)) =>
            \A a \in update_permissions(users, orgs, permissions, <<t>>) :
                /\ a.resp.status = "ok"
                /\ LET r == delete_permissions(a.permissions, <<t>>)
                   IN  /\ r.resp.status = "ok" /\ r.resp.count = 1
                       /\ DocsWithKey(r.permissions, KeyOf(t)) = {}
                       /\ \A d \in BagToSet(a.permissions) :
                             KeyOf(d) # KeyOf(t) =>
                                 CopiesIn(d, r.permissions)
                                     = CopiesIn(d, a.permissions)
                       /\ BagToSet(r.permissions) \subseteq BagToSet(a.permissions)

\* C8 witness: a revoke of a single valid triple deleted one document, the
\* one of its key, and other documents remain.
C8_Witness ==
    /\ req.op = "revoke" /\ Len(req.body) = 1
    /\ ~FailsValidation(req.body[1])
    /\ resp.status = "ok" /\ resp.count = 1
    /\ DocsWithKey(permissions, KeyOf(req.body[1])) = {}
    /\ permissions # EmptyBag

\* The error the claim expects of one element: the checks in the order user,
\* org, role; a user_id that is no well-formed id fails the user check with
\* the identifier error.
C9_Failure(p) ==
    IF p.user_id \in MalformedIds THEN "InvalidId"
    ELSE IF ~UserKnown(p) THEN "User not found"
    ELSE IF ~OrgKnown(p) THEN "Org not found"
    ELSE IF ~RoleAccepted(p) THEN "Invalid role"
    ELSE ""

\* C9: the error of an assign is that of the first failing check (user, then
\* org, then role) of the first failing element, whatever follows it.
C9_AssignFirstFailure ==
    [][Handles("assign")
       => LET body == req'.body
              bad == {i \in DOMAIN body : C9_Failure(body[i]) # ""}
          IN  IF bad = {}
              THEN resp'.status \in {"ok", "InvalidOperation"}
              ELSE \E i \in bad :
                      /\ \A j \in bad : i <= j
                      /\ resp'.status = C9_Failure(body[i])]_vars

\* C9 witness: the first element has an unknown user and a refused role, the
\* second fails another check, and the answer is User not found.
C9_Witness ==
    /\ req.op = "assign" /\ Len(req.body) = 2
    /\ ~UserKnown(req.body[1]) /\ ~RoleAccepted(req.body[1])
    /\ req.body[1].user_id \notin MalformedIds
    /\ C9_Failure(req.body[2]) \notin {"", "User not found"}
    /\ resp.status = "User not found"

\* C10: after a successful assign every key of the batch has exactly one
\* document, whose role is that of the last element of the batch with the key.
C10_AssignLastRoleWins ==
    [][(Handles("assign") /\ resp'.status = "ok")
       => LET body == req'.body
          IN  \A i \in DOMAIN body :
                 (\A j \in DOMAIN body :
                      j > i => KeyOf(body[j]) # KeyOf(body[i]))
                 => /\ DocsWithKey(permissions', KeyOf(body[i])) = {body[i]}
                    /\ CopiesIn(body[i], permissions') = 1]_vars

\* C10 witness: a successful assign of two elements with one key and two
\* roles left the role of the second, over a store that held the first's.
C10_Witness ==
    /\ req.op = "assign" /\ resp.status = "ok" /\ Len(req.body) = 2
    /\ KeyOf(req.body[1]) = KeyOf(req.body[2])
    /\ req.body[1].role # req.body[2].role
    /\ BagIn(req.body[2], permissions)
    /\ resp.count = 0

====
